---- MODULE Spec2Model ----
(***************************************************************************)
(* State-machine model of the RISC-V matrix-extension simulator            *)
(* (simulator/riscv_matrix_ext.h): a 32-entry register file, a byte        *)
(* buffer, the R-type decoder and the MATMUL instruction; and of the SAIL  *)
(* specification of MATMUL the simulator is compared with.                 *)
(*                                                                         *)
(* A 32-bit quantity (uint32_t or int32_t) is represented by the integer   *)
(* in -2^31 .. 2^31-1 that has the same two's-complement bit pattern: the  *)
(* int32_t value is that integer, the uint32_t value is it modulo 2^32.    *)
(* All arithmetic is done on the bit pattern, byte by byte or bit by bit,  *)
(* so that every operation keeps its 32-bit width.                         *)
(***************************************************************************)
EXTENDS Integers, Sequences, FiniteSets, TLC

VARIABLES
    regs,         \* cpu->regs: register index 0..31 -> 32-bit word
    memory,       \* cpu->memory: byte offset 0..memory_size-1 -> 0..255
    memory_size,  \* cpu->memory_size
    alive,        \* FALSE once the process was killed by a wild access
    lastOp,       \* name of the function the caller invoked last
    arg,          \* its arguments
    ret,          \* the value it returned to the caller
    stdout,       \* the diagnostics it printed (tags, in order)
    calls,        \* number of calls made on this CPU state so far
    accesses,     \* the read_word / write_word calls it made, in order
    heap,         \* the heap blocks currently allocated
    twin          \* a second CPU state given the same calls (or NoTwin)

vars == <<regs, memory, memory_size, alive, lastOp, arg, ret, stdout, calls,
          accesses, heap, twin>>

----------------------------------------------------------------------------
(* 32-bit words *)

TwoTo30 == 2^30
MaxInt32 == (TwoTo30 - 1) + TwoTo30
MinInt32 == (-MaxInt32) - 1
IsWord32(w) == w >= MinInt32 /\ w <= MaxInt32

\* The k-th byte (k = 0 least significant) of a word's bit pattern.
Byte(w, k) == (w \div (2^(8 * k))) % 256

\* The word whose bit pattern has bytes b0 (least significant) .. b3.
FromBytes(b0, b1, b2, b3) ==
    b0 + 256 * b1 + 65536 * b2 + 16777216 * (IF b3 >= 128 THEN b3 - 256 ELSE b3)

\* The uint32_t value of a word is at least n (0 <= n < 2^31).
GeU(w, n) == w < 0 \/ w >= n

\* The machine's 32-bit addition: ripple carry over the four bytes, the carry
\* out of the top byte is dropped.
Add32(x, y) ==
    LET s0 == Byte(x, 0) + Byte(y, 0)
        s1 == Byte(x, 1) + Byte(y, 1) + (s0 \div 256)
        s2 == Byte(x, 2) + Byte(y, 2) + (s1 \div 256)
        s3 == Byte(x, 3) + Byte(y, 3) + (s2 \div 256)
    IN  FromBytes(s0 % 256, s1 % 256, s2 % 256, s3 % 256)

\* The machine's 32-bit multiplication: the low four byte columns of the
\* schoolbook product, the upper columns are dropped.
Mul32(x, y) ==
    LET c0 == Byte(x, 0) * Byte(y, 0)
        c1 == Byte(x, 0) * Byte(y, 1) + Byte(x, 1) * Byte(y, 0) + (c0 \div 256)
        c2 == Byte(x, 0) * Byte(y, 2) + Byte(x, 1) * Byte(y, 1)
              + Byte(x, 2) * Byte(y, 0) + (c1 \div 256)
        c3 == Byte(x, 0) * Byte(y, 3) + Byte(x, 1) * Byte(y, 2)
              + Byte(x, 2) * Byte(y, 1) + Byte(x, 3) * Byte(y, 0) + (c2 \div 256)
    IN  FromBytes(c0 % 256, c1 % 256, c2 % 256, c3 % 256)

\* Bits 0..30 of a word, as a natural number; bit 31.
Low31(w) == IF w >= 0 THEN w ELSE w - MinInt32
Bit31(w) == IF w < 0 THEN 1 ELSE 0
WithBit31(low, b) == IF b = 1 THEN low + MinInt32 ELSE low

\* Bitwise and / or of two n-bit natural numbers (n a power of two): the
\* low and the high halves are combined separately.
RECURSIVE AndBits(_, _, _)
AndBits(x, y, n) ==
    IF x = 0 \/ y = 0 THEN 0
    ELSE IF n = 1 THEN 1
    ELSE LET half == 2^(n \div 2)
         IN  AndBits(x % half, y % half, n \div 2)
             + half * AndBits(x \div half, y \div half, n \div 2)

RECURSIVE OrBits(_, _, _)
OrBits(x, y, n) ==
    IF x = 0 THEN y
    ELSE IF y = 0 THEN x
    ELSE IF n = 1 THEN 1
    ELSE LET half == 2^(n \div 2)
         IN  OrBits(x % half, y % half, n \div 2)
             + half * OrBits(x \div half, y \div half, n \div 2)

AndNat(x, y) == AndBits(x, y, 32)
OrNat(x, y) == OrBits(x, y, 32)

\* C's & and | on 32-bit operands.
And32(x, y) == WithBit31(AndNat(Low31(x), Low31(y)), Bit31(x) * Bit31(y))
Or32(x, y) ==
    WithBit31(OrNat(Low31(x), Low31(y)), IF Bit31(x) + Bit31(y) > 0 THEN 1 ELSE 0)

\* C's >> on a uint32_t (zeros shifted in), 1 <= n <= 30.
Shr32(w, n) ==
    IF w >= 0 THEN w \div (2^n)
    ELSE ((w - MinInt32) \div (2^n)) + 2^(31 - n)

\* C's << on a 32-bit operand (bits shifted out are lost), 1 <= n <= 30.
Shl32(w, n) ==
    LET kept == Low31(w) % (2^(32 - n))
        top  == 2^(31 - n)
    IN  IF kept >= top THEN (kept - top - top) * (2^n) ELSE kept * (2^n)

----------------------------------------------------------------------------
(* Instruction decode *)

\* The error-code table of the header.
RISCV_SUCCESS == 0
RISCV_ERROR_MEMORY == -1
RISCV_ERROR_ALIGNMENT == -2
RISCV_ERROR_BOUNDS == -3
RISCV_ERROR_INSTRUCTION == -4

OPCODE_CUSTOM_1 == 43
FUNC3_MATMUL == 7
FUNC7_MATMUL == 1
NUM_REGISTERS == 32

\* Assignment to a bit-field of the given width keeps the low bits.
BitField(v, width) == v % (2^width)

\* decode_r_type with the rs2 field taken one bit too high.
decode_r_type_rs2_shift(instruction) ==
    [opcode |-> BitField(And32(instruction, 127), 7),
     rd     |-> BitField(And32(Shr32(instruction, 7), 31), 5),
     func3  |-> BitField(And32(Shr32(instruction, 12), 7), 3),
     rs1    |-> BitField(And32(Shr32(instruction, 15), 31), 5),
     rs2    |-> BitField(And32(Shr32(instruction, 21), 31), 5),
     func7  |-> BitField(And32(Shr32(instruction, 25), 127), 7)]

\* decode_r_type with the rd field taken one bit too high.
decode_r_type_rd_shift(instruction) ==
    [opcode |-> BitField(And32(instruction, 127), 7),
     rd     |-> BitField(And32(Shr32(instruction, 8), 31), 5),
     func3  |-> BitField(And32(Shr32(instruction, 12), 7), 3),
     rs1    |-> BitField(And32(Shr32(instruction, 15), 31), 5),
     rs2    |-> BitField(And32(Shr32(instruction, 20), 31), 5),
     func7  |-> BitField(And32(Shr32(instruction, 25), 127), 7)]

\* decode_r_type with plain int members and no masks.
decode_r_type_unmasked(instruction) ==
    [opcode |-> BitField(And32(instruction, 127), 7),
     rd     |-> Shr32(instruction, 7),
     func3  |-> BitField(And32(Shr32(instruction, 12), 7), 3),
     rs1    |-> Shr32(instruction, 15),
     rs2    |-> Shr32(instruction, 20),
     func7  |-> BitField(And32(Shr32(instruction, 25), 127), 7)]

\* decode_r_type with a func7 mask of 0x3F.
decode_r_type_func7_6bits(instruction) ==
    [opcode |-> BitField(And32(instruction, 127), 7),
     rd     |-> BitField(And32(Shr32(instruction, 7), 31), 5),
     func3  |-> BitField(And32(Shr32(instruction, 12), 7), 3),
     rs1    |-> BitField(And32(Shr32(instruction, 15), 31), 5),
     rs2    |-> BitField(And32(Shr32(instruction, 20), 31), 5),
     func7  |-> BitField(And32(Shr32(instruction, 25), 63), 7)]

decode_r_type(instruction) ==
    [opcode |-> BitField(And32(instruction, 127), 7),
     rd     |-> BitField(And32(Shr32(instruction, 7), 31), 5),
     func3  |-> BitField(And32(Shr32(instruction, 12), 7), 3),
     rs1    |-> BitField(And32(Shr32(instruction, 15), 31), 5),
     rs2    |-> BitField(And32(Shr32(instruction, 20), 31), 5),
     func7  |-> BitField(And32(Shr32(instruction, 25), 127), 7)]

\* The instruction word assembled from its six fields, as run_matmul_demo and
\* the test harness assemble it.
encode_r_type(func7, rs2, rs1, func3, rd, opcode) ==
    Or32(Or32(Or32(Or32(Or32(Shl32(func7, 25), Shl32(rs2, 20)), Shl32(rs1, 15)),
                   Shl32(func3, 12)), Shl32(rd, 7)), opcode)

matmul_inst(rd, rs1, rs2) ==
    encode_r_type(FUNC7_MATMUL, rs2, rs1, FUNC3_MATMUL, rd, OPCODE_CUSTOM_1)

----------------------------------------------------------------------------
(* 2x2 matrices: the record field mIJ is the C member m[I][J] *)

Mat(m00, m01, m10, m11) == [m00 |-> m00, m01 |-> m01, m10 |-> m10, m11 |-> m11]

\* matrix_multiply_2x2 with the second operand indexed column-first (A x B^T).
matrix_multiply_2x2_transposed(a, b) ==
    Mat(Add32(Mul32(a.m00, b.m00), Mul32(a.m01, b.m01)),
        Add32(Mul32(a.m00, b.m10), Mul32(a.m01, b.m11)),
        Add32(Mul32(a.m10, b.m00), Mul32(a.m11, b.m01)),
        Add32(Mul32(a.m10, b.m10), Mul32(a.m11, b.m11)))

\* matrix_multiply_2x2 multiplying entry by entry.
matrix_multiply_2x2_elementwise(a, b) ==
    Mat(Mul32(a.m00, b.m00), Mul32(a.m01, b.m01),
        Mul32(a.m10, b.m10), Mul32(a.m11, b.m11))

\* matrix_multiply_2x2 with the second product of each entry not multiplied.
matrix_multiply_2x2_dropped_factor(a, b) ==
    Mat(Add32(Mul32(a.m00, b.m00), a.m01),
        Add32(Mul32(a.m00, b.m01), a.m01),
        Add32(Mul32(a.m10, b.m00), a.m11),
        Add32(Mul32(a.m10, b.m01), a.m11))

matrix_multiply_2x2(a, b) ==
    Mat(Add32(Mul32(a.m00, b.m00), Mul32(a.m01, b.m10)),
        Add32(Mul32(a.m00, b.m01), Mul32(a.m01, b.m11)),
        Add32(Mul32(a.m10, b.m00), Mul32(a.m11, b.m10)),
        Add32(Mul32(a.m10, b.m01), Mul32(a.m11, b.m11)))

----------------------------------------------------------------------------
(* CPU state and memory access.  A cpu is a record                         *)
(* [regs, memory, memory_size].                                            *)

\* init_cpu with the buffer taken from malloc, its bytes left as they were.
init_cpu_malloc_memory(size) ==
    [regs        |-> [r \in 0..(NUM_REGISTERS - 1) |-> 0],
     memory      |-> [o \in 0..(size - 1) |-> 205],
     memory_size |-> size]

init_cpu(size) ==
    [regs        |-> [r \in 0..(NUM_REGISTERS - 1) |-> 0],
     memory      |-> [o \in 0..(size - 1) |-> 0],
     memory_size |-> size]

\* The guard of read_word and write_word: addr + 3 >= cpu->memory_size, the
\* sum taken in 32 bits.
BoundsCheckFails(cpu, addr) == GeU(Add32(addr, 3), cpu.memory_size)

\* An access the guard lets through although it lies outside the buffer:
\* addr is 0xFFFFFFFD..0xFFFFFFFF and addr + 3 has wrapped to 0..2.
WildAccess(cpu, addr) == ~BoundsCheckFails(cpu, addr) /\ addr < 0

\* What *(int32_t*)(cpu->memory + addr) reads and writes inside the buffer:
\* four bytes at any byte offset, least significant first (the byte order
\* and the unaligned access of the x86 hosts the Makefile and the Windows
\* build script target).
LoadWord(mem, off) == FromBytes(mem[off], mem[off + 1], mem[off + 2], mem[off + 3])
StoreWord(mem, off, value) ==
    [mem EXCEPT ![off]     = Byte(value, 0),
                ![off + 1] = Byte(value, 1),
                ![off + 2] = Byte(value, 2),
                ![off + 3] = Byte(value, 3)]

\* A wild store.  ub.store = "outside": the bytes land outside the buffer.
\* ub.store = "wrap": the pointer sum wraps in 32 bits, so the store starts
\* before the buffer and its last bytes land on the first bytes of the buffer.
WildStore(mem, addr, value, ub) ==
    IF ub.store = "wrap"
    THEN [o \in DOMAIN mem |-> IF o <= addr + 3 THEN Byte(value, o - addr) ELSE mem[o]]
    ELSE mem

read_word(cpu, addr, ub) ==
    IF BoundsCheckFails(cpu, addr) THEN 0
    ELSE IF addr >= 0 THEN LoadWord(cpu.memory, addr)
    ELSE ub.value

\* write_word refusing every address that is not a multiple of 4.
write_word_aligned_only(cpu, addr, value, ub) ==
    IF BoundsCheckFails(cpu, addr) \/ addr % 4 # 0 THEN cpu
    ELSE IF addr >= 0 THEN [cpu EXCEPT !.memory = StoreWord(cpu.memory, addr, value)]
    ELSE [cpu EXCEPT !.memory = WildStore(cpu.memory, addr, value, ub)]

write_word(cpu, addr, value, ub) ==
    IF BoundsCheckFails(cpu, addr) THEN cpu
    ELSE IF addr >= 0 THEN [cpu EXCEPT !.memory = StoreWord(cpu.memory, addr, value)]
    ELSE [cpu EXCEPT !.memory = WildStore(cpu.memory, addr, value, ub)]

\* The diagnostic lines the two functions print.
read_word_out(cpu, addr) ==
    IF BoundsCheckFails(cpu, addr) THEN <<"ERROR: Memory access out of bounds">> ELSE <<>>
write_word_out(cpu, addr) ==
    IF BoundsCheckFails(cpu, addr) THEN <<"ERROR: Memory write out of bounds">> ELSE <<>>

\* The record of one read_word / write_word call: its address, and whether
\* it went on to dereference cpu->memory + addr.
read_word_acc(cpu, addr) ==
    <<[op |-> "read_word", addr |-> addr, deref |-> ~BoundsCheckFails(cpu, addr)]>>
write_word_acc(cpu, addr) ==
    <<[op |-> "write_word", addr |-> addr, deref |-> ~BoundsCheckFails(cpu, addr)]>>

\* read_matrix_2x2 reading the words column by column.
read_matrix_2x2_column_major(cpu, addr, ub) ==
    Mat(read_word(cpu, Add32(addr, 0), ub),
        read_word(cpu, Add32(addr, 8), ub),
        read_word(cpu, Add32(addr, 4), ub),
        read_word(cpu, Add32(addr, 12), ub))

read_matrix_2x2(cpu, addr, ub) ==
    Mat(read_word(cpu, Add32(addr, 0), ub),
        read_word(cpu, Add32(addr, 4), ub),
        read_word(cpu, Add32(addr, 8), ub),
        read_word(cpu, Add32(addr, 12), ub))

\* write_matrix_2x2 storing the words column by column.
write_matrix_2x2_column_major(cpu, addr, matrix, ub) ==
    LET c1 == write_word(cpu, Add32(addr, 0), matrix.m00, ub)
        c2 == write_word(c1, Add32(addr, 4), matrix.m10, ub)
        c3 == write_word(c2, Add32(addr, 8), matrix.m01, ub)
    IN  write_word(c3, Add32(addr, 12), matrix.m11, ub)

\* write_matrix_2x2 that stores nothing unless all four words are in bounds.
write_matrix_2x2_all_or_nothing(cpu, addr, matrix, ub) ==
    IF \E k \in {0, 4, 8, 12} : BoundsCheckFails(cpu, Add32(addr, k)) THEN cpu
    ELSE LET c1 == write_word(cpu, Add32(addr, 0), matrix.m00, ub)
             c2 == write_word(c1, Add32(addr, 4), matrix.m01, ub)
             c3 == write_word(c2, Add32(addr, 8), matrix.m10, ub)
         IN  write_word(c3, Add32(addr, 12), matrix.m11, ub)

\* write_matrix_2x2 storing a fifth word behind the matrix.
write_matrix_2x2_five_words(cpu, addr, matrix, ub) ==
    LET c1 == write_word(cpu, Add32(addr, 0), matrix.m00, ub)
        c2 == write_word(c1, Add32(addr, 4), matrix.m01, ub)
        c3 == write_word(c2, Add32(addr, 8), matrix.m10, ub)
        c4 == write_word(c3, Add32(addr, 12), matrix.m11, ub)
    IN  write_word(c4, Add32(addr, 16), matrix.m11, ub)

write_matrix_2x2(cpu, addr, matrix, ub) ==
    LET c1 == write_word(cpu, Add32(addr, 0), matrix.m00, ub)
        c2 == write_word(c1, Add32(addr, 4), matrix.m01, ub)
        c3 == write_word(c2, Add32(addr, 8), matrix.m10, ub)
    IN  write_word(c3, Add32(addr, 12), matrix.m11, ub)

read_matrix_2x2_out(cpu, addr) ==
    read_word_out(cpu, Add32(addr, 0)) \o read_word_out(cpu, Add32(addr, 4))
    \o read_word_out(cpu, Add32(addr, 8)) \o read_word_out(cpu, Add32(addr, 12))

write_matrix_2x2_out(cpu, addr) ==
    write_word_out(cpu, Add32(addr, 0)) \o write_word_out(cpu, Add32(addr, 4))
    \o write_word_out(cpu, Add32(addr, 8)) \o write_word_out(cpu, Add32(addr, 12))

read_matrix_2x2_acc(cpu, addr) ==
    read_word_acc(cpu, Add32(addr, 0)) \o read_word_acc(cpu, Add32(addr, 4))
    \o read_word_acc(cpu, Add32(addr, 8)) \o read_word_acc(cpu, Add32(addr, 12))

write_matrix_2x2_acc(cpu, addr) ==
    write_word_acc(cpu, Add32(addr, 0)) \o write_word_acc(cpu, Add32(addr, 4))
    \o write_word_acc(cpu, Add32(addr, 8)) \o write_word_acc(cpu, Add32(addr, 12))

\* A call that is killed by a wild access gets as far as the first
\* dereference outside the buffer.
UpToFirstWild(log) ==
    LET wild == {i \in 1..Len(log) : log[i].deref /\ log[i].addr < 0}
    IN  IF wild = {} THEN log
        ELSE SubSeq(log, 1, CHOOSE i \in wild : \A j \in wild : i <= j)

\* The four word addresses of the matrix at addr.
MatrixWordAddrs(addr) == {Add32(addr, 0), Add32(addr, 4), Add32(addr, 8), Add32(addr, 12)}

----------------------------------------------------------------------------
(* Instruction execution.  The result is [cpu, ret, out, acc]: the CPU     *)
(* state afterwards, the int returned, the lines printed, the word         *)
(* accesses made.                                                          *)

\* execute_matmul that also puts the first result word into register rd, as a
\* conventional R-type instruction would.
execute_matmul_writes_rd(cpu, inst, ub) ==
    LET addr_a      == cpu.regs[inst.rs1]
        addr_b      == cpu.regs[inst.rs2]
        addr_result == cpu.regs[inst.rd]
        matrix_a    == read_matrix_2x2(cpu, addr_a, ub)
        matrix_b    == read_matrix_2x2(cpu, addr_b, ub)
        result      == matrix_multiply_2x2(matrix_a, matrix_b)
        after       == write_matrix_2x2(cpu, addr_result, result, ub)
    IN  [cpu |-> [after EXCEPT !.regs[inst.rd] = result.m00],
         ret |-> 0,
         out |-> <<"Executing MATMUL">> \o read_matrix_2x2_out(cpu, addr_a)
                 \o read_matrix_2x2_out(cpu, addr_b)
                 \o write_matrix_2x2_out(cpu, addr_result),
         acc |-> read_matrix_2x2_acc(cpu, addr_a)
                 \o read_matrix_2x2_acc(cpu, addr_b)
                 \o write_matrix_2x2_acc(cpu, addr_result)]

\* execute_matmul multiplying the operands in the other order (B x A).
execute_matmul_swapped_operands(cpu, inst, ub) ==
    LET addr_a      == cpu.regs[inst.rs1]
        addr_b      == cpu.regs[inst.rs2]
        addr_result == cpu.regs[inst.rd]
        matrix_a    == read_matrix_2x2(cpu, addr_a, ub)
        matrix_b    == read_matrix_2x2(cpu, addr_b, ub)
        result      == matrix_multiply_2x2(matrix_b, matrix_a)
    IN  [cpu |-> write_matrix_2x2(cpu, addr_result, result, ub),
         ret |-> 0,
         out |-> <<"Executing MATMUL">> \o read_matrix_2x2_out(cpu, addr_a)
                 \o read_matrix_2x2_out(cpu, addr_b)
                 \o write_matrix_2x2_out(cpu, addr_result),
         acc |-> read_matrix_2x2_acc(cpu, addr_a)
                 \o read_matrix_2x2_acc(cpu, addr_b)
                 \o write_matrix_2x2_acc(cpu, addr_result)]

\* execute_matmul storing the result at the address in rs1 instead of rd.
execute_matmul_result_at_rs1(cpu, inst, ub) ==
    LET addr_a      == cpu.regs[inst.rs1]
        addr_b      == cpu.regs[inst.rs2]
        addr_result == cpu.regs[inst.rs1]
        matrix_a    == read_matrix_2x2(cpu, addr_a, ub)
        matrix_b    == read_matrix_2x2(cpu, addr_b, ub)
        result      == matrix_multiply_2x2(matrix_a, matrix_b)
    IN  [cpu |-> write_matrix_2x2(cpu, addr_result, result, ub),
         ret |-> 0,
         out |-> <<"Executing MATMUL">> \o read_matrix_2x2_out(cpu, addr_a)
                 \o read_matrix_2x2_out(cpu, addr_b)
                 \o write_matrix_2x2_out(cpu, addr_result),
         acc |-> read_matrix_2x2_acc(cpu, addr_a)
                 \o read_matrix_2x2_acc(cpu, addr_b)
                 \o write_matrix_2x2_acc(cpu, addr_result)]

\* execute_matmul reading operand B before operand A.
execute_matmul_reads_b_first(cpu, inst, ub) ==
    LET addr_a      == cpu.regs[inst.rs1]
        addr_b      == cpu.regs[inst.rs2]
        addr_result == cpu.regs[inst.rd]
        matrix_a    == read_matrix_2x2(cpu, addr_a, ub)
        matrix_b    == read_matrix_2x2(cpu, addr_b, ub)
        result      == matrix_multiply_2x2(matrix_a, matrix_b)
    IN  [cpu |-> write_matrix_2x2(cpu, addr_result, result, ub),
         ret |-> 0,
         out |-> <<"Executing MATMUL">> \o read_matrix_2x2_out(cpu, addr_b)
                 \o read_matrix_2x2_out(cpu, addr_a)
                 \o write_matrix_2x2_out(cpu, addr_result),
         acc |-> read_matrix_2x2_acc(cpu, addr_b)
                 \o read_matrix_2x2_acc(cpu, addr_a)
                 \o write_matrix_2x2_acc(cpu, addr_result)]

\* execute_matmul treating x0 as hard-wired to zero.
execute_matmul_x0_hardwired(cpu, inst, ub) ==
    LET X(r)        == IF r = 0 THEN 0 ELSE cpu.regs[r]
        addr_a      == X(inst.rs1)
        addr_b      == X(inst.rs2)
        addr_result == X(inst.rd)
        matrix_a    == read_matrix_2x2(cpu, addr_a, ub)
        matrix_b    == read_matrix_2x2(cpu, addr_b, ub)
        result      == matrix_multiply_2x2(matrix_a, matrix_b)
    IN  [cpu |-> write_matrix_2x2(cpu, addr_result, result, ub),
         ret |-> 0,
         out |-> <<"Executing MATMUL">> \o read_matrix_2x2_out(cpu, addr_a)
                 \o read_matrix_2x2_out(cpu, addr_b)
                 \o write_matrix_2x2_out(cpu, addr_result),
         acc |-> read_matrix_2x2_acc(cpu, addr_a)
                 \o read_matrix_2x2_acc(cpu, addr_b)
                 \o write_matrix_2x2_acc(cpu, addr_result)]

\* execute_matmul adding the product to the matrix already at the result
\* address (C += A x B).
execute_matmul_accumulate(cpu, inst, ub) ==
    LET addr_a      == cpu.regs[inst.rs1]
        addr_b      == cpu.regs[inst.rs2]
        addr_result == cpu.regs[inst.rd]
        matrix_a    == read_matrix_2x2(cpu, addr_a, ub)
        matrix_b    == read_matrix_2x2(cpu, addr_b, ub)
        matrix_c    == read_matrix_2x2(cpu, addr_result, ub)
        product     == matrix_multiply_2x2(matrix_a, matrix_b)
        result      == Mat(Add32(product.m00, matrix_c.m00),
                           Add32(product.m01, matrix_c.m01),
                           Add32(product.m10, matrix_c.m10),
                           Add32(product.m11, matrix_c.m11))
    IN  [cpu |-> write_matrix_2x2(cpu, addr_result, result, ub),
         ret |-> 0,
         out |-> <<"Executing MATMUL">> \o read_matrix_2x2_out(cpu, addr_a)
                 \o read_matrix_2x2_out(cpu, addr_b)
                 \o write_matrix_2x2_out(cpu, addr_result),
         acc |-> read_matrix_2x2_acc(cpu, addr_a)
                 \o read_matrix_2x2_acc(cpu, addr_b)
                 \o write_matrix_2x2_acc(cpu, addr_result)]

execute_matmul(cpu, inst, ub) ==
    LET addr_a      == cpu.regs[inst.rs1]
        addr_b      == cpu.regs[inst.rs2]
        addr_result == cpu.regs[inst.rd]
        matrix_a    == read_matrix_2x2(cpu, addr_a, ub)
        matrix_b    == read_matrix_2x2(cpu, addr_b, ub)
        result      == matrix_multiply_2x2(matrix_a, matrix_b)
    IN  [cpu |-> write_matrix_2x2(cpu, addr_result, result, ub),
         ret |-> 0,
         out |-> <<"Executing MATMUL">> \o read_matrix_2x2_out(cpu, addr_a)
                 \o read_matrix_2x2_out(cpu, addr_b)
                 \o write_matrix_2x2_out(cpu, addr_result),
         acc |-> read_matrix_2x2_acc(cpu, addr_a)
                 \o read_matrix_2x2_acc(cpu, addr_b)
                 \o write_matrix_2x2_acc(cpu, addr_result)]

\* execute_instruction that does not look at func7.
execute_instruction_no_func7(cpu, instruction, ub) ==
    LET inst == decode_r_type(instruction)
    IN  IF inst.opcode = OPCODE_CUSTOM_1 /\ inst.func3 = FUNC3_MATMUL
        THEN execute_matmul(cpu, inst, ub)
        ELSE [cpu |-> cpu, ret |-> -1, out |-> <<"ERROR: Unknown instruction">>,
              acc |-> <<>>]

\* execute_instruction that does not look at func3.
execute_instruction_no_func3(cpu, instruction, ub) ==
    LET inst == decode_r_type(instruction)
    IN  IF inst.opcode = OPCODE_CUSTOM_1 /\ inst.func7 = FUNC7_MATMUL
        THEN execute_matmul(cpu, inst, ub)
        ELSE [cpu |-> cpu, ret |-> -1, out |-> <<"ERROR: Unknown instruction">>,
              acc |-> <<>>]

execute_instruction(cpu, instruction, ub) ==
    LET inst == decode_r_type(instruction)
    IN  IF inst.opcode = OPCODE_CUSTOM_1 /\ inst.func3 = FUNC3_MATMUL
           /\ inst.func7 = FUNC7_MATMUL
        THEN execute_matmul(cpu, inst, ub)
        ELSE [cpu |-> cpu, ret |-> -1, out |-> <<"ERROR: Unknown instruction">>,
              acc |-> <<>>]

\* The word accesses execute_instruction lets through to outside the buffer.
WildInExecute(cpu, instruction) ==
    LET inst == decode_r_type(instruction)
    IN  /\ inst.opcode = OPCODE_CUSTOM_1 /\ inst.func3 = FUNC3_MATMUL
        /\ inst.func7 = FUNC7_MATMUL
        /\ \E r \in {inst.rs1, inst.rs2, inst.rd} :
              \E a \in MatrixWordAddrs(cpu.regs[r]) : WildAccess(cpu, a)

----------------------------------------------------------------------------
(* Bounds and inputs *)

MemSize == 52     \* bytes of memory given to init_cpu
MaxCalls == 2     \* calls made on one CPU state

\* The fixtures of the demo and of the test harness, and one with extremes.
MatA1 == Mat(1, 2, 3, 4)
MatB1 == Mat(5, 6, 7, 8)
MatA2 == Mat(-1, 2, -3, 4)
MatB2 == Mat(MaxInt32, -2, 65536, MinInt32)
SetupPairs == {<<MatA1, MatB1>>, <<MatA2, MatB2>>}

\* Addresses held in registers: three disjoint in-bounds regions, an
\* unaligned in-bounds region overlapping two of them, a region straddling
\* the end of memory, one wholly past the end, and 0xFFFFFFFD.
Addrs == {0, 5, 16, 32, MemSize - 8, MemSize - 3, -3}

\* What a wild access can do when the process survives it.
WildValues == {0, 23130}
UBOutcomes == [store : {"outside", "wrap"}, value : WildValues]
NoUB == [store |-> "outside", value |-> 0]

\* Instruction words submitted to execute_instruction.
Words ==
    {matmul_inst(1, 2, 3), matmul_inst(3, 1, 2), matmul_inst(0, 0, 0),
     encode_r_type(1, 3, 2, 7, 1, 51),     \* opcode 0x33
     encode_r_type(0, 3, 2, 7, 1, 43),     \* func7 0
     encode_r_type(65, 3, 2, 7, 1, 43),    \* func7 0x41
     encode_r_type(1, 3, 2, 3, 1, 43),     \* func3 3
     0, -1}

----------------------------------------------------------------------------
(* The state machine *)

Cpu == [regs |-> regs, memory |-> memory, memory_size |-> memory_size]

\* The set-up of run_matmul_demo on a fresh CPU, scaled from 64 KB to size
\* bytes: matrix A written at 0, matrix B at 16, and x1 (rd), x2 (rs1),
\* x3 (rs2) loaded with addresses.
run_matmul_demo_setup(size, a, b, addr_result, addr_a, addr_b) ==
    LET c0 == init_cpu(size)
        c1 == write_matrix_2x2(c0, 0, a, NoUB)
        c2 == write_matrix_2x2(c1, 16, b, NoUB)
    IN  [c2 EXCEPT !.regs = [r \in 0..(NUM_REGISTERS - 1) |->
            IF r = 1 THEN addr_result
            ELSE IF r = 2 THEN addr_a
            ELSE IF r = 3 THEN addr_b
            ELSE c2.regs[r]]]

\* No second CPU state is being run alongside.
NoTwin == <<>>

\* The two blocks init_cpu leaves allocated when it succeeds.
LiveCpu == {"cpu_state_t", "memory"}

InitCpu(cpu) ==
    /\ regs = cpu.regs
    /\ memory = cpu.memory
    /\ memory_size = cpu.memory_size
    /\ alive = TRUE
    /\ lastOp = "init_cpu"
    /\ arg = <<cpu.memory_size>>
    /\ ret = 0
    /\ stdout = <<>>
    /\ calls = 0
    /\ accesses = <<>>
    /\ heap = LiveCpu
    /\ twin = NoTwin

Init ==
    \E p \in SetupPairs, ar \in Addrs, aa \in Addrs, ab \in Addrs :
        InitCpu(run_matmul_demo_setup(MemSize, p[1], p[2], ar, aa, ab))

\* execute_instruction returns.
ExecuteReturns(word, ub) ==
    \E r \in {execute_instruction(Cpu, word, ub)} :
        /\ regs' = r.cpu.regs
        /\ memory' = r.cpu.memory
        /\ memory_size' = r.cpu.memory_size
        /\ ret' = r.ret
        /\ stdout' = r.out
        /\ lastOp' = "execute_instruction"
        /\ arg' = <<word>>
        /\ calls' = calls + 1
        /\ alive' = TRUE
        /\ accesses' = r.acc
        /\ heap' = heap
        /\ twin' = twin

\* A wild access kills the process: nothing is returned.
ExecuteCrashes(word) ==
    /\ alive' = FALSE
    /\ lastOp' = "execute_instruction"
    /\ arg' = <<word>>
    /\ stdout' = <<"Executing MATMUL">>
    /\ calls' = calls + 1
    /\ accesses' = UpToFirstWild(execute_instruction(Cpu, word, NoUB).acc)
    /\ UNCHANGED <<regs, memory, memory_size, ret, heap, twin>>

ExecuteInstruction ==
    /\ alive
    /\ calls < MaxCalls
    /\ \E word \in Words :
          IF WildInExecute(Cpu, word)
          THEN \/ ExecuteCrashes(word)
               \/ \E ub \in UBOutcomes : ExecuteReturns(word, ub)
          ELSE ExecuteReturns(word, NoUB)

Next == ExecuteInstruction

Spec == Init /\ [][Next]_vars

----------------------------------------------------------------------------
(* The memory accessors called directly (test set-up, print_matrix_at_address) *)

MaxMemCalls == 1  \* direct accessor calls made on one CPU state

\* Addresses probed: both sides of the end of memory, an unaligned one, and
\* two addresses for which addr + 3 wraps.
ProbeAddrs == {0, 1, MemSize - 4, MemSize - 3, MemSize, -3, -1}
ProbeValues == {-2, 16909060}

ReadWordReturns(addr, ub) ==
    /\ ret' = read_word(Cpu, addr, ub)
    /\ stdout' = read_word_out(Cpu, addr)
    /\ lastOp' = "read_word"
    /\ arg' = <<addr>>
    /\ calls' = calls + 1
    /\ accesses' = read_word_acc(Cpu, addr)
    /\ UNCHANGED <<regs, memory, memory_size, alive, heap, twin>>

WriteWordReturns(addr, value, ub) ==
    \E c \in {write_word(Cpu, addr, value, ub)} :
        /\ memory' = c.memory
        /\ regs' = c.regs
        /\ memory_size' = c.memory_size
        /\ stdout' = write_word_out(Cpu, addr)
        /\ lastOp' = "write_word"
        /\ arg' = <<addr, value>>
        /\ calls' = calls + 1
        /\ accesses' = write_word_acc(Cpu, addr)
        /\ UNCHANGED <<ret, alive, heap, twin>>

AccessCrashes(op, args) ==
    /\ alive' = FALSE
    /\ lastOp' = op
    /\ arg' = args
    /\ stdout' = <<>>
    /\ calls' = calls + 1
    /\ accesses' = <<[op |-> op, addr |-> args[1], deref |-> TRUE]>>
    /\ UNCHANGED <<regs, memory, memory_size, ret, heap, twin>>

ReadWord ==
    /\ alive
    /\ calls < MaxMemCalls
    /\ \E addr \in ProbeAddrs :
          IF WildAccess(Cpu, addr)
          THEN \/ AccessCrashes("read_word", <<addr>>)
               \/ \E ub \in UBOutcomes : ReadWordReturns(addr, ub)
          ELSE ReadWordReturns(addr, NoUB)

WriteWord ==
    /\ alive
    /\ calls < MaxMemCalls
    /\ \E addr \in ProbeAddrs, value \in ProbeValues :
          IF WildAccess(Cpu, addr)
          THEN \/ AccessCrashes("write_word", <<addr, value>>)
               \/ \E ub \in UBOutcomes : WriteWordReturns(addr, value, ub)
          ELSE WriteWordReturns(addr, value, NoUB)

NextMem == ReadWord \/ WriteWord

SpecMem == Init /\ [][NextMem]_vars

----------------------------------------------------------------------------
(* matrix_multiply_2x2 on its own, as the test harness calls it *)

MulEntries == {MinInt32, -1, 0, 1, MaxInt32}
MulLeft ==
    {Mat(a, b, c, d) : a \in MulEntries, b \in MulEntries,
                       c \in MulEntries, d \in MulEntries}
    \cup {Mat(2, 3, 4, 5), MatA1, MatA2, Mat(1000, 2000, 3000, 4000), Mat(5, 0, 0, 0)}
MulRight ==
    {Mat(1, 0, 0, 1), Mat(0, 0, 0, 0), MatB1, MatB2, Mat(1, -2, 3, -4),
     Mat(100, 200, 300, 400), Mat(3, 0, 0, 0), Mat(-1, -1, -1, -1),
     Mat(46341, 65536, MinInt32, MaxInt32)}
MulPairs == (MulLeft \X MulRight) \cup (MulRight \X MulLeft)

InitOther(cpu) ==
    /\ regs = cpu.regs
    /\ memory = cpu.memory
    /\ memory_size = cpu.memory_size
    /\ alive = TRUE
    /\ stdout = <<>>
    /\ calls = 0
    /\ accesses = <<>>
    /\ heap = LiveCpu
    /\ twin = NoTwin

InitMul ==
    \E p \in MulPairs :
        /\ InitOther(init_cpu(MemSize))
        /\ lastOp = "test_matrix_multiplication"
        /\ arg = p
        /\ ret = Mat(0, 0, 0, 0)

MatrixMultiply ==
    /\ lastOp = "test_matrix_multiplication"
    /\ lastOp' = "matrix_multiply_2x2"
    /\ ret' = matrix_multiply_2x2(arg[1], arg[2])
    /\ UNCHANGED <<regs, memory, memory_size, alive, arg, stdout, calls,
                   accesses, heap, twin>>

NextMul == MatrixMultiply

SpecMul == InitMul /\ [][NextMul]_vars

----------------------------------------------------------------------------
(* Encoding, decoding and dispatch of instruction words, as                *)
(* test_instruction_encoding and run_matmul_demo build them from fields    *)

RegFields == 0..(NUM_REGISTERS - 1)
SomeRegFields == {0, 1, 2, 3, 16, 31}
SomeOpcodes == {0, 42, 43, 51, 107, 127}
SomeFunc7 == {0, 1, 2, 3, 64, 65, 127}

Fields(func7, rs2, rs1, func3, rd, opcode) ==
    [opcode |-> opcode, rd |-> rd, func3 |-> func3,
     rs1 |-> rs1, rs2 |-> rs2, func7 |-> func7]

\* Every MATMUL word, and a grid of other field tuples.
FieldTuples ==
    {Fields(FUNC7_MATMUL, rs2, rs1, FUNC3_MATMUL, rd, OPCODE_CUSTOM_1) :
        rs2 \in RegFields, rs1 \in RegFields, rd \in RegFields}
    \cup
    [opcode : SomeOpcodes, rd : SomeRegFields, func3 : 0..7,
     rs1 : SomeRegFields, rs2 : SomeRegFields, func7 : SomeFunc7]

EncodeFields(f) == encode_r_type(f.func7, f.rs2, f.rs1, f.func3, f.rd, f.opcode)

\* The CPU state run_matmul_demo sets up, scaled to MemSize.
DemoCpu == run_matmul_demo_setup(MemSize, MatA1, MatB1, 32, 0, 16)

InitFields ==
    \E f \in FieldTuples :
        /\ InitOther(DemoCpu)
        /\ lastOp = "test_instruction_encoding"
        /\ arg = f
        /\ ret = 0

Decode ==
    /\ lastOp = "test_instruction_encoding"
    /\ lastOp' = "decode_r_type"
    /\ ret' = decode_r_type(EncodeFields(arg))
    /\ UNCHANGED <<regs, memory, memory_size, alive, arg, stdout, calls,
                   accesses, heap, twin>>

Dispatch ==
    /\ lastOp = "test_instruction_encoding"
    /\ \E r \in {execute_instruction(Cpu, EncodeFields(arg), NoUB)} :
          /\ regs' = r.cpu.regs
          /\ memory' = r.cpu.memory
          /\ memory_size' = r.cpu.memory_size
          /\ ret' = r.ret
          /\ stdout' = r.out
          /\ accesses' = r.acc
    /\ lastOp' = "execute_instruction"
    /\ calls' = calls + 1
    /\ UNCHANGED <<alive, arg, heap, twin>>

NextFields == Decode \/ Dispatch

SpecFields == InitFields /\ [][NextFields]_vars

----------------------------------------------------------------------------
(* The life cycle of a CPU state: init_cpu with its two allocations, the   *)
(* memory accessors called on the fresh state (as the demo and the test    *)
(* fixtures call them to set memory up and read it back), free_cpu         *)

MaxApiCalls == 2  \* accessor calls made on one CPU state

\* No CPU state: what the caller holds before init_cpu and after a failure.
NoCpu == [regs |-> <<>>, memory |-> <<>>, memory_size |-> 0]

\* init_cpu leaking the state record when the buffer cannot be allocated.
init_cpu_alloc_no_free(size, malloc_ok, calloc_ok) ==
    IF ~malloc_ok THEN [ret |-> "NULL", cpu |-> NoCpu, heap |-> {}]
    ELSE IF ~calloc_ok
         THEN [ret |-> "NULL", cpu |-> NoCpu, heap |-> {"cpu_state_t"}]
         ELSE [ret |-> "cpu", cpu |-> init_cpu(size),
               heap |-> {"cpu_state_t"} \cup {"memory"}]

\* init_cpu under the two outcomes of malloc and of calloc: the pointer
\* returned, the state it points to, the blocks left allocated.
init_cpu_alloc(size, malloc_ok, calloc_ok) ==
    IF ~malloc_ok THEN [ret |-> "NULL", cpu |-> NoCpu, heap |-> {}]
    ELSE IF ~calloc_ok
         THEN [ret |-> "NULL", cpu |-> NoCpu,
               heap |-> {"cpu_state_t"} \ {"cpu_state_t"}]
         ELSE [ret |-> "cpu", cpu |-> init_cpu(size),
               heap |-> {"cpu_state_t"} \cup {"memory"}]

\* free_cpu: both blocks are released; free_cpu(NULL) does nothing.
free_cpu(blocks) == blocks \ {"memory", "cpu_state_t"}

\* Sizes given to init_cpu; addresses and values given to the accessors on a
\* memory of the given size: both sides of its end, unaligned ones, and
\* addresses for which addr + 3 or addr + 4k wraps.
ApiSizes == {0, 20, MemSize}
ApiWordAddrs(size) == {0, 1, size - 4, size - 3, -3}
ApiMatrixAddrs(size) == {0, 5, size - 16, size - 15, -12, -7, -3}
ApiValues == {-2, 16909060}
ApiMatrices == {MatA1, MatB2}

InitApi ==
    /\ regs = NoCpu.regs
    /\ memory = NoCpu.memory
    /\ memory_size = NoCpu.memory_size
    /\ alive = TRUE
    /\ lastOp = "main"
    /\ arg = <<>>
    /\ ret = "NULL"
    /\ stdout = <<>>
    /\ calls = 0
    /\ accesses = <<>>
    /\ heap = {}
    /\ twin = NoTwin

InitCpuCall ==
    /\ lastOp = "main"
    /\ \E size \in ApiSizes, malloc_ok \in BOOLEAN, calloc_ok \in BOOLEAN :
          \E r \in {init_cpu_alloc(size, malloc_ok, calloc_ok)} :
              /\ regs' = r.cpu.regs
              /\ memory' = r.cpu.memory
              /\ memory_size' = r.cpu.memory_size
              /\ ret' = r.ret
              /\ heap' = r.heap
              /\ arg' = <<size>>
    /\ lastOp' = "init_cpu"
    /\ UNCHANGED <<alive, stdout, calls, accesses, twin>>

\* The caller holds a CPU state it may pass to the accessors.
HoldsCpu == alive /\ heap = LiveCpu /\ lastOp \notin {"main", "free_cpu"}

ApiReadWord ==
    /\ HoldsCpu
    /\ calls < MaxApiCalls
    /\ \E addr \in ApiWordAddrs(memory_size) :
          IF WildAccess(Cpu, addr)
          THEN \/ AccessCrashes("read_word", <<addr>>)
               \/ \E ub \in UBOutcomes : ReadWordReturns(addr, ub)
          ELSE ReadWordReturns(addr, NoUB)

ApiWriteWord ==
    /\ HoldsCpu
    /\ calls < MaxApiCalls
    /\ \E addr \in ApiWordAddrs(memory_size), value \in ApiValues :
          IF WildAccess(Cpu, addr)
          THEN \/ AccessCrashes("write_word", <<addr, value>>)
               \/ \E ub \in UBOutcomes : WriteWordReturns(addr, value, ub)
          ELSE WriteWordReturns(addr, value, NoUB)

WildInMatrix(cpu, addr) == \E a \in MatrixWordAddrs(addr) : WildAccess(cpu, a)

MatrixAccessCrashes(op, args, log) ==
    /\ alive' = FALSE
    /\ lastOp' = op
    /\ arg' = args
    /\ stdout' = <<>>
    /\ calls' = calls + 1
    /\ accesses' = UpToFirstWild(log)
    /\ UNCHANGED <<regs, memory, memory_size, ret, heap, twin>>

ReadMatrixReturns(addr, ub) ==
    /\ ret' = read_matrix_2x2(Cpu, addr, ub)
    /\ stdout' = read_matrix_2x2_out(Cpu, addr)
    /\ accesses' = read_matrix_2x2_acc(Cpu, addr)
    /\ lastOp' = "read_matrix_2x2"
    /\ arg' = <<addr>>
    /\ calls' = calls + 1
    /\ UNCHANGED <<regs, memory, memory_size, alive, heap, twin>>

WriteMatrixReturns(addr, matrix, ub) ==
    \E c \in {write_matrix_2x2(Cpu, addr, matrix, ub)} :
        /\ memory' = c.memory
        /\ regs' = c.regs
        /\ memory_size' = c.memory_size
        /\ stdout' = write_matrix_2x2_out(Cpu, addr)
        /\ accesses' = write_matrix_2x2_acc(Cpu, addr)
        /\ lastOp' = "write_matrix_2x2"
        /\ arg' = <<addr, matrix>>
        /\ calls' = calls + 1
        /\ UNCHANGED <<ret, alive, heap, twin>>

ReadMatrix ==
    /\ HoldsCpu
    /\ calls < MaxApiCalls
    /\ \E addr \in ApiMatrixAddrs(memory_size) :
          IF WildInMatrix(Cpu, addr)
          THEN \/ MatrixAccessCrashes("read_matrix_2x2", <<addr>>,
                                      read_matrix_2x2_acc(Cpu, addr))
               \/ \E ub \in UBOutcomes : ReadMatrixReturns(addr, ub)
          ELSE ReadMatrixReturns(addr, NoUB)

WriteMatrix ==
    /\ HoldsCpu
    /\ calls < MaxApiCalls
    /\ \E addr \in ApiMatrixAddrs(memory_size), matrix \in ApiMatrices :
          IF WildInMatrix(Cpu, addr)
          THEN \/ MatrixAccessCrashes("write_matrix_2x2", <<addr, matrix>>,
                                      write_matrix_2x2_acc(Cpu, addr))
               \/ \E ub \in UBOutcomes : WriteMatrixReturns(addr, matrix, ub)
          ELSE WriteMatrixReturns(addr, matrix, NoUB)

FreeCpu ==
    /\ alive
    /\ lastOp \notin {"main", "free_cpu"}
    /\ heap' = free_cpu(heap)
    /\ regs' = NoCpu.regs
    /\ memory' = NoCpu.memory
    /\ memory_size' = NoCpu.memory_size
    /\ lastOp' = "free_cpu"
    /\ arg' = <<>>
    /\ stdout' = <<>>
    /\ accesses' = <<>>
    /\ UNCHANGED <<alive, ret, calls, twin>>

NextApi ==
    InitCpuCall \/ ApiReadWord \/ ApiWriteWord \/ ReadMatrix \/ WriteMatrix
    \/ FreeCpu

SpecApi == InitApi /\ [][NextApi]_vars

----------------------------------------------------------------------------
(* MATMUL at the edges: result regions that straddle the end of memory or  *)
(* overlap an operand, operands out of bounds, and x0 holding an address   *)
(* (the caller stores into cpu->regs[] directly, as run_matmul_demo does)  *)

MaxEdgeCalls == 2  \* calls made on one CPU state

\* cpu->regs[r] = value, done by the caller.
set_reg(cpu, r, value) == [cpu EXCEPT !.regs[r] = value]

\* Values of x0; of x1: on and overlapping operand A by 0, 4, 8, 12 bytes,
\* clear of the operands, ending at the end of memory, straddling it
\* (aligned and not), 0xFFFFFFFD; of x2: operand A, and a region straddling
\* the end; of x3: operand B, and 0xFFFFFFFD.
EdgeReg0 == {0, 16, 36}
EdgeReg1 == {0, 4, 8, 12, 32, 36, MemSize - 15, MemSize - 8, MemSize - 5, -3, -12}
EdgeReg2 == {0, MemSize - 8}
EdgeReg3 == {16, -3}

\* matmul with x0 in each of the three fields, and two unrecognized words.
EdgeWords ==
    {matmul_inst(1, 2, 3), matmul_inst(0, 2, 3), matmul_inst(1, 0, 3),
     matmul_inst(1, 2, 0), encode_r_type(1, 3, 2, 7, 1, 51), 0}

InitEdge ==
    \E p \in SetupPairs, r0 \in EdgeReg0, r1 \in EdgeReg1, r2 \in EdgeReg2,
       r3 \in EdgeReg3 :
        InitCpu(set_reg(run_matmul_demo_setup(MemSize, p[1], p[2], r1, r2, r3),
                        0, r0))

EdgeExecute ==
    /\ alive
    /\ calls < MaxEdgeCalls
    /\ \E word \in EdgeWords :
          IF WildInExecute(Cpu, word)
          THEN \/ ExecuteCrashes(word)
               \/ \E ub \in UBOutcomes : ExecuteReturns(word, ub)
          ELSE ExecuteReturns(word, NoUB)

NextEdge == EdgeExecute

SpecEdge == InitEdge /\ [][NextEdge]_vars

----------------------------------------------------------------------------
(* Two CPU states run side by side: both start with the same registers,   *)
(* memory and memory size and are given the same instruction words.  The  *)
(* second state is held in twin.                                          *)

MaxTwinCalls == 2  \* words given to the pair of CPU states

TwinReg1 == {32, MemSize - 8, -3}
TwinReg2 == {0, -3}
TwinWords == {matmul_inst(1, 2, 3), matmul_inst(3, 1, 2), 0}

TwinCpu ==
    [regs |-> twin.regs, memory |-> twin.memory, memory_size |-> twin.memory_size]

\* Every way one call execute_instruction(cpu, word) can end: it returns
\* (under each outcome of a wild access, when it makes one), or a wild
\* access kills the process and the value held from the call before stays.
ExecuteOutcomes(cpu, held, word) ==
    LET returns(ub) ==
            LET r == execute_instruction(cpu, word, ub)
            IN  [regs |-> r.cpu.regs, memory |-> r.cpu.memory,
                 memory_size |-> r.cpu.memory_size, ret |-> r.ret,
                 alive |-> TRUE, out |-> r.out, acc |-> r.acc]
        crashes ==
            [regs |-> cpu.regs, memory |-> cpu.memory,
             memory_size |-> cpu.memory_size, ret |-> held,
             alive |-> FALSE, out |-> <<"Executing MATMUL">>,
             acc |-> UpToFirstWild(execute_instruction(cpu, word, NoUB).acc)]
    IN  IF WildInExecute(cpu, word)
        THEN {crashes} \cup {returns(ub) : ub \in UBOutcomes}
        ELSE {returns(NoUB)}

InitTwin ==
    \E p \in SetupPairs, r1 \in TwinReg1, r2 \in TwinReg2 :
        \E cpu \in {run_matmul_demo_setup(MemSize, p[1], p[2], r1, r2, 16)} :
            /\ regs = cpu.regs
            /\ memory = cpu.memory
            /\ memory_size = cpu.memory_size
            /\ alive = TRUE
            /\ lastOp = "init_cpu"
            /\ arg = <<cpu.memory_size>>
            /\ ret = 0
            /\ stdout = <<>>
            /\ calls = 0
            /\ accesses = <<>>
            /\ heap = LiveCpu
            /\ twin = [regs |-> cpu.regs, memory |-> cpu.memory,
                       memory_size |-> cpu.memory_size, ret |-> 0,
                       alive |-> TRUE]

\* The same word is executed on both CPU states.
TwinExecute ==
    /\ alive
    /\ twin.alive
    /\ calls < MaxTwinCalls
    /\ \E word \in TwinWords :
          \E first \in ExecuteOutcomes(Cpu, ret, word),
             second \in ExecuteOutcomes(TwinCpu, twin.ret, word) :
              /\ regs' = first.regs
              /\ memory' = first.memory
              /\ memory_size' = first.memory_size
              /\ ret' = first.ret
              /\ alive' = first.alive
              /\ stdout' = first.out
              /\ accesses' = first.acc
              /\ twin' = [regs |-> second.regs, memory |-> second.memory,
                          memory_size |-> second.memory_size,
                          ret |-> second.ret, alive |-> second.alive]
              /\ lastOp' = "execute_instruction"
              /\ arg' = <<word>>
              /\ calls' = calls + 1
              /\ heap' = heap

NextTwin == TwinExecute

SpecTwin == InitTwin /\ [][NextTwin]_vars

----------------------------------------------------------------------------
(* Reference notions used to state the properties.  They are defined from  *)
(* the arithmetic meaning of the words, not from the operators above.      *)

\* The value in -2^31 .. 2^31-1 congruent to u + v modulo 2^32.
SumMod32(u, v) ==
    IF u >= 0 /\ v >= 0 /\ u > MaxInt32 - v THEN (u + MinInt32) + (v + MinInt32)
    ELSE IF u < 0 /\ v < 0 /\ u < MinInt32 - v THEN (u - MinInt32) + (v - MinInt32)
    ELSE u + v

\* 2 * v modulo 2^32.
Twice(v) == SumMod32(v, v)

\* The k-th hexadecimal digit (k = 0..7) of the two's-complement pattern of y.
HexDigit(y, k) == (y \div (16^k)) % 16

\* x * n modulo 2^32 for a hexadecimal digit n, by doubling and adding.
Pick(b, v) == IF b = 1 THEN v ELSE 0
ProdByDigit(x, n) ==
    SumMod32(SumMod32(Pick(n % 2, x), Pick((n \div 2) % 2, Twice(x))),
             SumMod32(Pick((n \div 4) % 2, Twice(Twice(x))),
                      Pick((n \div 8) % 2, Twice(Twice(Twice(x))))))

\* x * 16^k modulo 2^32 (k = 0..7): the low 31 - 4k bits of x move up by 4k
\* places, the bit above them becomes the sign bit, the rest is lost.
TimesHex(x, k) ==
    IF k = 0 THEN x
    ELSE (x % (2^(31 - 4 * k))) * (16^k)
         + (IF (x \div (2^(31 - 4 * k))) % 2 = 1 THEN MinInt32 ELSE 0)

\* The value in -2^31 .. 2^31-1 congruent to x * y modulo 2^32: the sum over
\* the hexadecimal digits d_k of y of x * 16^k * d_k.
ProdTerm(x, y, k) == ProdByDigit(TimesHex(x, k), HexDigit(y, k))
ProdMod32(x, y) ==
    SumMod32(SumMod32(SumMod32(ProdTerm(x, y, 0), ProdTerm(x, y, 1)),
                      SumMod32(ProdTerm(x, y, 2), ProdTerm(x, y, 3))),
             SumMod32(SumMod32(ProdTerm(x, y, 4), ProdTerm(x, y, 5)),
                      SumMod32(ProdTerm(x, y, 6), ProdTerm(x, y, 7))))

\* The 2x2 product A x B with every entry reduced modulo 2^32.
MatrixProduct(a, b) ==
    [m00 |-> SumMod32(ProdMod32(a.m00, b.m00), ProdMod32(a.m01, b.m10)),
     m01 |-> SumMod32(ProdMod32(a.m00, b.m01), ProdMod32(a.m01, b.m11)),
     m10 |-> SumMod32(ProdMod32(a.m10, b.m00), ProdMod32(a.m11, b.m10)),
     m11 |-> SumMod32(ProdMod32(a.m10, b.m01), ProdMod32(a.m11, b.m11))]

IdentityMatrix == [m00 |-> 1, m01 |-> 0, m10 |-> 0, m11 |-> 1]
ZeroMatrix == [m00 |-> 0, m01 |-> 0, m10 |-> 0, m11 |-> 0]

\* The bits lo .. lo+width-1 of word w, as a number.
FieldAt(w, lo, width) == (w \div (2^lo)) % (2^width)
IsMatmulWord(w) ==
    FieldAt(w, 0, 7) = 43 /\ FieldAt(w, 12, 3) = 7 /\ FieldAt(w, 25, 7) = 1
RdOf(w) == FieldAt(w, 7, 5)
Rs1Of(w) == FieldAt(w, 15, 5)
Rs2Of(w) == FieldAt(w, 20, 5)

\* The word with the given fields at their bit offsets.
WordOfFields(f) ==
    f.opcode + 128 * f.rd + 4096 * f.func3 + 32768 * f.rs1 + 1048576 * f.rs2
    + 33554432 * (IF f.func7 >= 64 THEN f.func7 - 128 ELSE f.func7)

\* The 4-byte word at addr, and the 16-byte region at addr, lie inside a
\* memory of the given size (addr taken as an unsigned number).
WordInside(addr, size) == addr >= 0 /\ addr + 4 <= size
RegionInside(addr, size) == addr >= 0 /\ addr + 16 <= size

\* The little-endian signed word in the bytes off .. off+3 of mem.
WordAt(mem, off) ==
    LET low == mem[off] + 256 * mem[off + 1] + 65536 * mem[off + 2]
        top == mem[off + 3]
    IN  IF top >= 128 THEN low + 16777216 * (top - 256) ELSE low + 16777216 * top
MatrixAt(mem, off) ==
    [m00 |-> WordAt(mem, off), m01 |-> WordAt(mem, off + 4),
     m10 |-> WordAt(mem, off + 8), m11 |-> WordAt(mem, off + 12)]

\* All twelve word accesses of the MATMUL word w lie inside memory.
TwelveAccessesInside(w) ==
    \A r \in {Rs1Of(w), Rs2Of(w), RdOf(w)} : \A k \in {0, 4, 8, 12} :
        WordInside(SumMod32(regs[r], k), memory_size)

\* The eight operand reads of the MATMUL word w lie inside memory.
OperandReadsInside(w) ==
    \A r \in {Rs1Of(w), Rs2Of(w)} : \A k \in {0, 4, 8, 12} :
        WordInside(SumMod32(regs[r], k), memory_size)

\* The 16 byte addresses base, base + 1, .., base + 15 (modulo 2^32).
Region16(base) == {SumMod32(base, k) : k \in 0..15}

\* Byte offset o lies in base .. base + 15, base read as an unsigned number
\* (a base of 2^31 or more is beyond every offset of the buffer).
InInterval16(o, base) == base >= 0 /\ o >= base /\ o < base + 16

\* Two 16-byte regions inside memory share no byte.
Disjoint16(a, b) == a + 16 <= b \/ b + 16 <= a

\* The k-th word (k = 0..3) of a matrix in memory order.
Entry(matrix, k) ==
    CASE k = 0 -> matrix.m00 [] k = 1 -> matrix.m01
      [] k = 2 -> matrix.m10 [] k = 3 -> matrix.m11

\* The twelve accesses of the MATMUL word w in the order A, B, result, each
\* as <<function, address>>; and a log reduced to that form.
AccessOrder(w) ==
    [i \in 1..12 |->
        <<IF i <= 8 THEN "read_word" ELSE "write_word",
          SumMod32(regs[IF i <= 4 THEN Rs1Of(w) ELSE IF i <= 8 THEN Rs2Of(w)
                        ELSE RdOf(w)],
                   4 * ((i - 1) % 4))>>]
Shape(log) == [i \in 1..Len(log) |-> <<log[i].op, log[i].addr>>]

----------------------------------------------------------------------------
(* The SAIL specification of MATMUL (the struct matmul_instruction, the    *)
(* encdec mapping clause and the function execute_matmul).  Bitvectors of  *)
(* 32 bits are represented like words; + and * on bits(32) are modulo 2^32. *)

sail_opcode == 51   \* 0b0110011
sail_func3 == 7     \* 0b111
sail_func7 == 1     \* 0b0000001

\* The bits hi .. lo of a bitvector, as a number.
sail_slice(w, hi, lo) == (w \div (2^lo)) % (2^(hi - lo + 1))

\* encdec left to right: the concatenation
\* 0b0000001 @ rs2 @ rs1 @ 0b111 @ rd @ 0b0110011.
sail_encdec(rd, rs1, rs2) ==
    ((((sail_func7 * 32 + rs2) * 32 + rs1) * 8 + sail_func3) * 32 + rd) * 128
    + sail_opcode

\* encdec right to left: the instruction a word is matched to.
sail_decode(w) ==
    IF /\ sail_slice(w, 31, 25) = sail_func7
       /\ sail_slice(w, 14, 12) = sail_func3
       /\ sail_slice(w, 6, 0) = sail_opcode
    THEN [ast |-> "MATMUL", rd |-> sail_slice(w, 11, 7),
          rs1 |-> sail_slice(w, 19, 15), rs2 |-> sail_slice(w, 24, 20)]
    ELSE [ast |-> "none", rd |-> 0, rs1 |-> 0, rs2 |-> 0]

\* X(r): the register accessor of the SAIL RISC-V model, in which x0 reads
\* as zero.
sail_X(rf, r) == IF r = 0 THEN 0 ELSE rf[r]

\* mem_read(addr, 4, ...) and mem_write(addr, 4, value, ...): four bytes,
\* little-endian.
sail_mem_read(mem, addr) == WordAt(mem, addr)
sail_mem_write(mem, addr, value) ==
    [o \in DOMAIN mem |->
        IF o >= addr /\ o <= addr + 3 THEN (value \div (256^(o - addr))) % 256
        ELSE mem[o]]

sail_read_matrix_2x2(mem, addr) ==
    [m00 |-> sail_mem_read(mem, SumMod32(addr, 0)),
     m01 |-> sail_mem_read(mem, SumMod32(addr, 4)),
     m10 |-> sail_mem_read(mem, SumMod32(addr, 8)),
     m11 |-> sail_mem_read(mem, SumMod32(addr, 12))]

sail_write_matrix_2x2(mem, addr, matrix) ==
    LET m1 == sail_mem_write(mem, SumMod32(addr, 0), matrix.m00)
        m2 == sail_mem_write(m1, SumMod32(addr, 4), matrix.m01)
        m3 == sail_mem_write(m2, SumMod32(addr, 8), matrix.m10)
    IN  sail_mem_write(m3, SumMod32(addr, 12), matrix.m11)

sail_matrix_multiply_2x2(a, b) ==
    [m00 |-> SumMod32(ProdMod32(a.m00, b.m00), ProdMod32(a.m01, b.m10)),
     m01 |-> SumMod32(ProdMod32(a.m00, b.m01), ProdMod32(a.m01, b.m11)),
     m10 |-> SumMod32(ProdMod32(a.m10, b.m00), ProdMod32(a.m11, b.m10)),
     m11 |-> SumMod32(ProdMod32(a.m10, b.m01), ProdMod32(a.m11, b.m11))]

\* The registers and memory after the SAIL execute_matmul(rd, rs1, rs2).
sail_execute_matmul(rf, mem, rd, rs1, rs2) ==
    LET matrix_a == sail_read_matrix_2x2(mem, sail_X(rf, rs1))
        matrix_b == sail_read_matrix_2x2(mem, sail_X(rf, rs2))
        result   == sail_matrix_multiply_2x2(matrix_a, matrix_b)
    IN  [regs |-> rf, memory |-> sail_write_matrix_2x2(mem, sail_X(rf, rd), result)]

----------------------------------------------------------------------------
(* Instruction words as they are given: the .word directives of the       *)
(* assembly examples, the words of the encoding reference, the words both  *)
(* encodings produce, and words with a single bit set or cleared           *)

\* 0x0032F8AB, 0x006F5AAB, 0x00943BAB (encoding reference), 0x0020F1AB
\* (assembly examples).
DocWords == {3340459, 7297707, 9714603, 2159019}

WordSamples ==
    DocWords
    \cup {matmul_inst(rd, rs1, rs2) :
            rd \in SomeRegFields, rs1 \in SomeRegFields, rs2 \in SomeRegFields}
    \cup {sail_encdec(rd, rs1, rs2) :
            rd \in SomeRegFields, rs1 \in SomeRegFields, rs2 \in SomeRegFields}
    \cup {matmul_inst(4, 5, 6), matmul_inst(7, 8, 9)}
    \cup {2^k : k \in 0..30} \cup {-(2^k) : k \in 0..30}
    \cup {0, -1, MaxInt32, MinInt32}

\* The CPU state of the assembly example: x1 = address of A, x2 = address
\* of B, x3 = address of the result C.
AsmCpu == run_matmul_demo_setup(MemSize, MatA1, MatB1, 0, 16, 32)

InitWords ==
    \E w \in WordSamples, cpu \in {DemoCpu, AsmCpu} :
        /\ InitOther(cpu)
        /\ lastOp = ".word"
        /\ arg = <<w>>
        /\ ret = 0

DecodeWord ==
    /\ lastOp = ".word"
    /\ lastOp' = "decode_r_type"
    /\ ret' = decode_r_type(arg[1])
    /\ UNCHANGED <<regs, memory, memory_size, alive, arg, stdout, calls,
                   accesses, heap, twin>>

ExecuteWord ==
    /\ lastOp = ".word"
    /\ \E r \in {execute_instruction(Cpu, arg[1], NoUB)} :
          /\ regs' = r.cpu.regs
          /\ memory' = r.cpu.memory
          /\ memory_size' = r.cpu.memory_size
          /\ ret' = r.ret
          /\ stdout' = r.out
          /\ accesses' = r.acc
    /\ lastOp' = "execute_instruction"
    /\ calls' = calls + 1
    /\ UNCHANGED <<alive, arg, heap, twin>>

SailEncdec ==
    /\ lastOp = ".word"
    /\ lastOp' = "encdec"
    /\ ret' = sail_decode(arg[1])
    /\ UNCHANGED <<regs, memory, memory_size, alive, arg, stdout, calls,
                   accesses, heap, twin>>

NextWords == DecodeWord \/ ExecuteWord \/ SailEncdec

SpecWords == InitWords /\ [][NextWords]_vars

----------------------------------------------------------------------------
(* Properties *)

\* C1: when the three 16-byte regions at regs[rs1], regs[rs2] and regs[rd]
\* lie inside memory, executing a MATMUL word returns 0 and leaves at
\* regs[rd] the product of the matrices that were stored at regs[rs1] and
\* regs[rs2] before the call.
C1_MatmulStoresProduct ==
    [][(/\ lastOp' = "execute_instruction"
        /\ IsMatmulWord(arg'[1])
        /\ RegionInside(regs[Rs1Of(arg'[1])], memory_size)
        /\ RegionInside(regs[Rs2Of(arg'[1])], memory_size)
        /\ RegionInside(regs[RdOf(arg'[1])], memory_size))
       => (/\ alive'
           /\ ret' = 0
           /\ MatrixAt(memory', regs[RdOf(arg'[1])])
              = MatrixProduct(MatrixAt(memory, regs[Rs1Of(arg'[1])]),
                              MatrixAt(memory, regs[Rs2Of(arg'[1])])))]_vars

\* The demo: A=[[1,2],[3,4]] at 0, B=[[5,6],[7,8]] at 16, result address 32.
C1_Witness ==
    /\ lastOp = "execute_instruction"
    /\ calls = 1
    /\ arg = <<36794539>>
    /\ regs[1] = 32 /\ regs[2] = 0 /\ regs[3] = 16
    /\ MatrixAt(memory, 0) = [m00 |-> 1, m01 |-> 2, m10 |-> 3, m11 |-> 4]
    /\ MatrixAt(memory, 16) = [m00 |-> 5, m01 |-> 6, m10 |-> 7, m11 |-> 8]
    /\ MatrixAt(memory, 32) = [m00 |-> 19, m01 |-> 22, m10 |-> 43, m11 |-> 50]
    /\ ret = 0

\* C2: execute_instruction dispatches a word as MATMUL exactly when its
\* opcode, func3 and func7 are 0x2B, 7 and 1, whatever rd, rs1 and rs2 are;
\* every other word is rejected as unknown with a non-zero return.
C2_DispatchIffMatmulFields ==
    lastOp = "execute_instruction" =>
        IF arg.opcode = 43 /\ arg.func3 = 7 /\ arg.func7 = 1
        THEN Head(stdout) = "Executing MATMUL"
        ELSE stdout = <<"ERROR: Unknown instruction">> /\ ret # 0

C2_Witness ==
    /\ lastOp = "execute_instruction"
    /\ arg = [opcode |-> 43, rd |-> 31, func3 |-> 7, rs1 |-> 17, rs2 |-> 9,
              func7 |-> 1]
    /\ Head(stdout) = "Executing MATMUL"

\* C3: a word whose opcode, func3, func7 are not 0x2B, 7, 1 is rejected with
\* a non-zero return and the unknown-instruction diagnostic, and the call
\* leaves every register and every byte of memory as it was.
C3_UnrecognizedChangesNothing ==
    [][(lastOp' = "execute_instruction" /\ ~IsMatmulWord(arg'[1]))
       => (/\ alive'
           /\ ret' # 0
           /\ stdout' = <<"ERROR: Unknown instruction">>
           /\ regs' = regs
           /\ memory' = memory
           /\ memory_size' = memory_size)]_vars

\* The word with func3 = 3 rejected on a CPU whose memory holds the fixtures.
C3_Witness ==
    /\ lastOp = "execute_instruction"
    /\ arg = <<36778155>>
    /\ ~IsMatmulWord(arg[1])
    /\ ret = -1
    /\ WordAt(memory, 0) = 1
    /\ regs[1] = 32

\* C4: no call of execute_instruction changes any register, whether the
\* word is recognized or not and whether its accesses are in bounds or not.
C4_RegistersNeverWritten ==
    [][lastOp' = "execute_instruction" => regs' = regs]_vars

\* Two calls in a row on a CPU whose result address is that of operand A:
\* the second MATMUL has returned, the matrix at 0 has been overwritten, and
\* the registers still hold the three addresses.
C4_Witness ==
    /\ lastOp = "execute_instruction"
    /\ calls = 2
    /\ IsMatmulWord(arg[1])
    /\ ret = 0
    /\ regs[1] = 0 /\ regs[2] = 0 /\ regs[3] = 16
    /\ WordAt(memory, 0) \notin {1, -1}

\* C5: read_word and write_word at an address with addr + 4 > memory_size
\* touch no byte, and read_word hands back something no successful read of
\* this memory could have handed back.
C5_OutOfBoundsAccessReported ==
    [][(/\ lastOp' \in {"read_word", "write_word"}
        /\ ~WordInside(arg'[1], memory_size))
       => (/\ alive'
           /\ memory' = memory
           /\ lastOp' = "read_word" =>
                 \A off \in 0..(memory_size - 4) : WordAt(memory, off) # ret')]_vars

\* C6: execute_instruction on a MATMUL word returns 0 exactly when all eight
\* reads and four writes were inside memory, and a non-zero code otherwise.
C6_OutOfBoundsPropagates ==
    (lastOp = "execute_instruction" /\ IsMatmulWord(arg[1])) =>
        IF TwelveAccessesInside(arg[1]) THEN alive /\ ret = 0
        ELSE alive /\ ret # 0

\* C7: decoding the word assembled from six in-range fields gives back the
\* six fields, and the assembled word has each field at its bit offset.
C7_DecodeEncodeRoundTrip ==
    lastOp = "decode_r_type" =>
        /\ ret = arg
        /\ EncodeFields(arg) = WordOfFields(arg)

C7_Witness ==
    /\ lastOp = "decode_r_type"
    /\ arg = [opcode |-> 107, rd |-> 3, func3 |-> 5, rs1 |-> 16, rs2 |-> 31,
              func7 |-> 127]
    /\ ret.func7 = 127 /\ ret.rs2 = 31 /\ ret.opcode = 107

\* C8: matrix_multiply_2x2 returns the row-by-column product, every entry
\* reduced modulo 2^32 into the signed 32-bit range.
C8_MultiplyIsWrappedProduct ==
    lastOp = "matrix_multiply_2x2" =>
        /\ ret = MatrixProduct(arg[1], arg[2])
        /\ \A e \in {ret.m00, ret.m01, ret.m10, ret.m11} : IsWord32(e)

\* A product whose entries overflow 32 bits.
C8_Witness ==
    /\ lastOp = "matrix_multiply_2x2"
    /\ arg[1] = [m00 |-> MaxInt32, m01 |-> MaxInt32, m10 |-> MinInt32, m11 |-> -1]
    /\ arg[2] = [m00 |-> 46341, m01 |-> 65536, m10 |-> MinInt32, m11 |-> MaxInt32]
    /\ ret = [m00 |-> -46341, m01 |-> -65535, m10 |-> 0, m11 |-> -MaxInt32]

\* C9: multiplying by the identity matrix on either side gives the other
\* operand back.
C9_IdentityLaw ==
    lastOp = "matrix_multiply_2x2" =>
        /\ arg[2] = IdentityMatrix => ret = arg[1]
        /\ arg[1] = IdentityMatrix => ret = arg[2]

C9_Witness ==
    /\ lastOp = "matrix_multiply_2x2"
    /\ arg[1] = IdentityMatrix
    /\ arg[2] = [m00 |-> MinInt32, m01 |-> -1, m10 |-> MaxInt32, m11 |-> 1]
    /\ ret = arg[2]

\* C10: multiplying any matrix by the all-zero matrix gives the all-zero
\* matrix.
C10_ZeroLaw ==
    lastOp = "matrix_multiply_2x2" =>
        (arg[2] = ZeroMatrix => ret = ZeroMatrix)

C10_Witness ==
    /\ lastOp = "matrix_multiply_2x2"
    /\ arg[1] = [m00 |-> 2, m01 |-> 3, m10 |-> 4, m11 |-> 5]
    /\ arg[2] = ZeroMatrix
    /\ ret = ZeroMatrix

\* C11: write_matrix_2x2 at an address with addr + 16 <= memory_size stores
\* m[0][0], m[0][1], m[1][0], m[1][1] as the little-endian words at addr,
\* addr + 4, addr + 8, addr + 12, and a read_matrix_2x2 at the same address
\* that follows it returns the matrix written.
C11_MatrixImageRoundTrip ==
    [][/\ (lastOp' = "write_matrix_2x2" /\ RegionInside(arg'[1], memory_size))
          => (/\ alive'
              /\ WordAt(memory', arg'[1]) = arg'[2].m00
              /\ WordAt(memory', arg'[1] + 4) = arg'[2].m01
              /\ WordAt(memory', arg'[1] + 8) = arg'[2].m10
              /\ WordAt(memory', arg'[1] + 12) = arg'[2].m11)
       /\ (/\ lastOp = "write_matrix_2x2"
           /\ lastOp' = "read_matrix_2x2"
           /\ arg'[1] = arg[1]
           /\ RegionInside(arg[1], memory_size))
          => (alive' /\ ret' = arg[2])]_vars

\* The matrix with extreme entries written at the unaligned address 5 of a
\* fresh memory and read back.
C11_Witness ==
    /\ lastOp = "read_matrix_2x2"
    /\ calls = 2
    /\ arg = <<5>>
    /\ memory_size = MemSize
    /\ ret = [m00 |-> MaxInt32, m01 |-> -2, m10 |-> 65536, m11 |-> MinInt32]
    /\ WordAt(memory, 9) = -2
    /\ WordAt(memory, 13) = 65536

\* C12: write_word at any byte offset addr with addr + 4 <= memory_size,
\* aligned or not, prints no error, leaves v in the bytes addr..addr+3 least
\* significant byte first, changes no other byte, and a read_word at the same
\* address that follows it returns v.
C12_UnalignedWordRoundTrip ==
    [][/\ (lastOp' = "write_word" /\ WordInside(arg'[1], memory_size))
          => (/\ alive'
              /\ stdout' = <<>>
              /\ DOMAIN memory' = DOMAIN memory
              /\ \A k \in 0..3 :
                    memory'[arg'[1] + k] = (arg'[2] \div (256^k)) % 256
              /\ \A o \in DOMAIN memory :
                    (o < arg'[1] \/ o > arg'[1] + 3) => memory'[o] = memory[o])
       /\ (/\ lastOp = "write_word"
           /\ lastOp' = "read_word"
           /\ arg'[1] = arg[1]
           /\ WordInside(arg[1], memory_size))
          => (alive' /\ stdout' = <<>> /\ ret' = arg[2])]_vars

\* 0x01020304 written at the odd address 1 and read back.
C12_Witness ==
    /\ lastOp = "read_word"
    /\ calls = 2
    /\ arg = <<1>>
    /\ ret = 16909060
    /\ stdout = <<>>
    /\ memory[1] = 4 /\ memory[2] = 3 /\ memory[3] = 2 /\ memory[4] = 1
    /\ memory[0] = 0 /\ memory[5] = 0

\* C13: when init_cpu(size) returns a state, its 32 registers are 0, its
\* buffer has size bytes that are all 0, memory_size is size, and a read_word
\* at any address inside the buffer made first returns 0 without an error.
C13_InitZeroFilled ==
    [][/\ (lastOp' = "init_cpu" /\ ret' # "NULL")
          => (/\ DOMAIN regs' = 0..31
              /\ \A r \in 0..31 : regs'[r] = 0
              /\ memory_size' = arg'[1]
              /\ DOMAIN memory' = 0..(arg'[1] - 1)
              /\ \A o \in 0..(arg'[1] - 1) : memory'[o] = 0)
       /\ (/\ lastOp = "init_cpu"
           /\ lastOp' = "read_word"
           /\ WordInside(arg'[1], memory_size))
          => (alive' /\ ret' = 0 /\ stdout' = <<>>)]_vars

\* The last word of a fresh memory read as the first call after init_cpu.
C13_Witness ==
    /\ lastOp = "read_word"
    /\ calls = 1
    /\ memory_size = MemSize
    /\ arg = <<MemSize - 4>>
    /\ ret = 0
    /\ stdout = <<>>
    /\ heap = {"cpu_state_t", "memory"}

\* C14: init_cpu either returns a state with both blocks allocated, 32
\* registers and a buffer of the size asked for, or returns NULL with no
\* block left allocated and no state in the caller's hands.
C14_InitAllOrNothing ==
    lastOp = "init_cpu" =>
        \/ /\ ret = "cpu"
           /\ heap = {"cpu_state_t", "memory"}
           /\ DOMAIN regs = 0..31
           /\ memory_size = arg[1]
           /\ DOMAIN memory = 0..(memory_size - 1)
        \/ /\ ret = "NULL"
           /\ heap = {}
           /\ DOMAIN regs = {}
           /\ DOMAIN memory = {}

\* init_cpu has failed for the full memory size.
C14_Witness ==
    /\ lastOp = "init_cpu"
    /\ arg = <<MemSize>>
    /\ ret = "NULL"
    /\ heap = {}
    /\ DOMAIN memory = {}

C17_SailAndSimulatorAgree ==
    /\ lastOp = "execute_instruction"
       => (Head(stdout) = "Executing MATMUL"
           <=> sail_decode(arg[1]).ast = "MATMUL")
    /\ (lastOp = "decode_r_type" /\ sail_decode(arg[1]).ast = "MATMUL")
       => (/\ ret.rd = sail_decode(arg[1]).rd
           /\ ret.rs1 = sail_decode(arg[1]).rs1
           /\ ret.rs2 = sail_decode(arg[1]).rs2)

C19_ReturnCodesFollowTable ==
    (lastOp = "execute_instruction" /\ alive) =>
        IF IsMatmulWord(arg[1])
        THEN TwelveAccessesInside(arg[1]) => ret = RISCV_SUCCESS
        ELSE /\ ret = RISCV_ERROR_INSTRUCTION
             /\ ret \notin {RISCV_ERROR_MEMORY, RISCV_ERROR_ALIGNMENT,
                            RISCV_ERROR_BOUNDS}

\* C20: every dereference made by read_word, write_word, read_matrix_2x2 and
\* write_matrix_2x2 is at a byte offset o with o + 4 <= memory_size.
C20_NoAccessPastEnd ==
    \A i \in 1..Len(accesses) :
        accesses[i].deref => WordInside(accesses[i].addr, memory_size)

\* C21: when one of the eight operand reads of a MATMUL is out of bounds,
\* no result word is written and memory is as it was before the call.
C21_FailedReadWritesNothing ==
    [][(/\ lastOp' = "execute_instruction"
        /\ IsMatmulWord(arg'[1])
        /\ ~OperandReadsInside(arg'[1]))
       => (/\ memory' = memory
           /\ \A i \in 1..Len(accesses') :
                 accesses'[i].op = "write_word" => ~accesses'[i].deref)]_vars

\* C22: with both operands in bounds and the result region straddling the
\* end of memory, every result word that fits holds its product value after
\* the call, and every byte outside those words is unchanged.
C22_NoPartialRollback ==
    [][(/\ lastOp' = "execute_instruction"
        /\ IsMatmulWord(arg'[1])
        /\ RegionInside(regs[Rs1Of(arg'[1])], memory_size)
        /\ RegionInside(regs[Rs2Of(arg'[1])], memory_size)
        /\ regs[RdOf(arg'[1])] > memory_size - 16
        /\ regs[RdOf(arg'[1])] <= memory_size - 4)
       => LET base    == regs[RdOf(arg'[1])]
              product == MatrixProduct(MatrixAt(memory, regs[Rs1Of(arg'[1])]),
                                       MatrixAt(memory, regs[Rs2Of(arg'[1])]))
              fits(k) == base + 4 * k + 4 <= memory_size
          IN  /\ alive'
              /\ \A k \in 0..3 :
                    fits(k) => WordAt(memory', base + 4 * k) = Entry(product, k)
              /\ \A o \in DOMAIN memory :
                    (~\E k \in 0..3 :
                         fits(k) /\ o >= base + 4 * k /\ o <= base + 4 * k + 3)
                    => memory'[o] = memory[o]]_vars

\* The result region starts 5 bytes before the end of memory: the first
\* word is stored, the second would end past the end and its bytes stay.
C22_Witness ==
    /\ lastOp = "execute_instruction"
    /\ calls = 1
    /\ arg = <<36794539>>
    /\ regs[1] = memory_size - 5 /\ regs[2] = 0 /\ regs[3] = 16
    /\ WordAt(memory, 0) = 1
    /\ WordAt(memory, memory_size - 5) = 19
    /\ memory[memory_size - 1] = 0
    /\ stdout # <<"Executing MATMUL">>

\* C23: a MATMUL makes its accesses in the order A at +0, +4, +8, +12, B at
\* +0, +4, +8, +12, result at +0, +4, +8, +12 (all twelve when the call
\* returns), so that with the three regions in bounds, overlapping or not,
\* the words written are the product of the operands as they were before.
C23_ReadsBeforeWrites ==
    [][(lastOp' = "execute_instruction" /\ IsMatmulWord(arg'[1]))
       => (/\ Len(accesses') <= 12
           /\ Shape(accesses') = SubSeq(AccessOrder(arg'[1]), 1, Len(accesses'))
           /\ alive' => Len(accesses') = 12
           /\ (/\ RegionInside(regs[Rs1Of(arg'[1])], memory_size)
               /\ RegionInside(regs[Rs2Of(arg'[1])], memory_size)
               /\ RegionInside(regs[RdOf(arg'[1])], memory_size))
              => MatrixAt(memory', regs[RdOf(arg'[1])])
                 = MatrixProduct(MatrixAt(memory, regs[Rs1Of(arg'[1])]),
                                 MatrixAt(memory, regs[Rs2Of(arg'[1])])))]_vars

\* The result region overlaps operand A by 12 bytes.
C23_Witness ==
    /\ lastOp = "execute_instruction"
    /\ calls = 1
    /\ arg = <<36794539>>
    /\ regs[1] = 4 /\ regs[2] = 0 /\ regs[3] = 16
    /\ Len(accesses) = 12
    /\ accesses[4] = [op |-> "read_word", addr |-> 12, deref |-> TRUE]
    /\ accesses[9] = [op |-> "write_word", addr |-> 4, deref |-> TRUE]
    /\ MatrixAt(memory, 4) = [m00 |-> 19, m01 |-> 22, m10 |-> 43, m11 |-> 50]
    /\ WordAt(memory, 0) = 1

\* C24 as stated: a MATMUL changes no byte of memory whose offset is
\* outside regs[rd] .. regs[rd] + 15 (regs[rd] an unsigned number, the sum not
\* wrapped), and leaves the memory size as it was.
C24_OnlyResultIntervalChanges ==
    [][(lastOp' = "execute_instruction" /\ IsMatmulWord(arg'[1]))
       => (/\ memory_size' = memory_size
           /\ \A o \in DOMAIN memory :
                 ~InInterval16(o, regs[RdOf(arg'[1])]) => memory'[o] = memory[o])]_vars

\* C24 amended: a MATMUL changes no byte of memory outside the 16 bytes at
\* regs[rd], regs[rd] + 1, .., regs[rd] + 15 taken modulo 2^32, and leaves
\* the memory size as it was.
C24_OnlyResultRegionChanges ==
    [][(lastOp' = "execute_instruction" /\ IsMatmulWord(arg'[1]))
       => (/\ memory_size' = memory_size
           /\ DOMAIN memory' = DOMAIN memory
           /\ \A o \in DOMAIN memory \ Region16(regs[RdOf(arg'[1])]) :
                 memory'[o] = memory[o])]_vars

\* The result address is 0xFFFFFFF4: the fourth result word is stored at
\* address 0, on the first word of operand A; the rest of A and B stay.
C24_Witness ==
    /\ lastOp = "execute_instruction"
    /\ calls = 1
    /\ alive
    /\ arg = <<36794539>>
    /\ regs[1] = -12 /\ regs[2] = 0 /\ regs[3] = 16
    /\ WordAt(memory, 0) = 50
    /\ WordAt(memory, 4) = 2
    /\ WordAt(memory, 16) = 5
    /\ accesses[12] = [op |-> "write_word", addr |-> 0, deref |-> TRUE]

\* C25: every call returns; a MATMUL has then made eight word reads
\* followed by four word writes, any other word has touched no memory.
C25_ExactlyTwelveAccesses ==
    lastOp = "execute_instruction"
    => /\ alive
       /\ IF IsMatmulWord(arg[1])
          THEN /\ Len(accesses) = 12
               /\ \A i \in 1..12 :
                     accesses[i].op = IF i <= 8 THEN "read_word" ELSE "write_word"
          ELSE accesses = <<>>

\* C26: every decoded rd, rs1 and rs2 is in 0..31, an index of the
\* register file; opcode and func7 are in 0..127 and func3 in 0..7.
C26_FieldsInRange ==
    lastOp = "decode_r_type"
    => /\ {ret.rd, ret.rs1, ret.rs2} \subseteq 0..(NUM_REGISTERS - 1)
       /\ {ret.rd, ret.rs1, ret.rs2} \subseteq DOMAIN regs
       /\ ret.opcode \in 0..127
       /\ ret.func7 \in 0..127
       /\ ret.func3 \in 0..7

\* The word 0xFFFFFFFF decodes to the largest value of every field.
C26_Witness ==
    /\ lastOp = "decode_r_type"
    /\ arg = <<-1>>
    /\ ret.rd = 31 /\ ret.rs1 = 31 /\ ret.rs2 = 31
    /\ ret.opcode = 127 /\ ret.func7 = 127 /\ ret.func3 = 7

\* C27: register 0 is an ordinary register: a MATMUL naming it as rd, rs1
\* or rs2 uses the value stored in regs[0] as that address, and no call
\* changes regs[0].
C27_X0IsOrdinary ==
    [][(lastOp' = "execute_instruction")
       => (/\ regs'[0] = regs[0]
           /\ (IsMatmulWord(arg'[1]) /\ alive')
              => (/\ Rs1Of(arg'[1]) = 0 => accesses'[1].addr = regs[0]
                  /\ Rs2Of(arg'[1]) = 0 => accesses'[5].addr = regs[0]
                  /\ RdOf(arg'[1]) = 0 => accesses'[9].addr = regs[0]
                  /\ TwelveAccessesInside(arg'[1])
                     => MatrixAt(memory', regs[RdOf(arg'[1])])
                        = MatrixProduct(
                              MatrixAt(memory, regs[Rs1Of(arg'[1])]),
                              MatrixAt(memory, regs[Rs2Of(arg'[1])]))))]_vars

\* matmul x0, x2, x3 with regs[0] = 36: the product is stored at 36, and
\* the matrix at address 0 is still operand A.
C27_Witness ==
    /\ lastOp = "execute_instruction"
    /\ calls = 1
    /\ arg = <<matmul_inst(0, 2, 3)>>
    /\ regs[0] = 36 /\ regs[2] = 0 /\ regs[3] = 16
    /\ accesses[9] = [op |-> "write_word", addr |-> 36, deref |-> TRUE]
    /\ MatrixAt(memory, 36) = [m00 |-> 19, m01 |-> 22, m10 |-> 43, m11 |-> 50]
    /\ MatrixAt(memory, 0) = [m00 |-> 1, m01 |-> 2, m10 |-> 3, m11 |-> 4]

\* C28: the six decoded fields put back at their bit offsets give the
\* decoded word.
C28_DecodeLosesNothing ==
    lastOp = "decode_r_type" => WordOfFields(ret) = arg[1]

\* The word 0x80000000: only the top bit of func7 is set.
C28_Witness ==
    /\ lastOp = "decode_r_type"
    /\ arg = <<MinInt32>>
    /\ ret.func7 = 64
    /\ ret.opcode = 0 /\ ret.rd = 0 /\ ret.func3 = 0 /\ ret.rs1 = 0 /\ ret.rs2 = 0

\* C30: repeating a MATMUL whose result region is in bounds and disjoint
\* from both operand regions leaves registers and memory exactly as the
\* first execution left them.
C30_RepeatIsIdempotent ==
    [][(/\ lastOp = "execute_instruction"
        /\ lastOp' = "execute_instruction"
        /\ arg' = arg
        /\ alive
        /\ IsMatmulWord(arg[1])
        /\ TwelveAccessesInside(arg[1])
        /\ Disjoint16(regs[RdOf(arg[1])], regs[Rs1Of(arg[1])])
        /\ Disjoint16(regs[RdOf(arg[1])], regs[Rs2Of(arg[1])]))
       => (regs' = regs /\ memory' = memory /\ alive')]_vars

\* The demo's MATMUL executed twice with the result away from the operands.
C30_Witness ==
    /\ lastOp = "execute_instruction"
    /\ calls = 2
    /\ arg = <<36794539>>
    /\ regs[1] = 36 /\ regs[2] = 0 /\ regs[3] = 16
    /\ Len(accesses) = 12
    /\ stdout[Len(stdout)] # "ERROR: Unknown instruction"
    /\ MatrixAt(memory, 36) = [m00 |-> 19, m01 |-> 22, m10 |-> 43, m11 |-> 50]

\* C29: two CPU states that start with equal registers, memory and memory
\* size and are given the same words return the same values and hold equal
\* registers and memory after every word.
C29_ExecuteIsDeterministic ==
    lastOp = "execute_instruction"
    => /\ twin.alive = alive
       /\ twin.ret = ret
       /\ twin.regs = regs
       /\ twin.memory = memory

====
